---- MODULE Spec2Model ----
(***************************************************************************)
(* Model of the pizza-app client store: the cart slice (cartSlice.ts), the *)
(* catalog slice (pizzaSlice.ts), the order slice (orderSlice.ts), the     *)
(* favorites slice, the notifications of the ui slice, the cart selectors  *)
(* (store/selectors) and the order confirmation handler of the cart page.  *)
(*                                                                         *)
(* Money is an integer number of mills (1/1000 dollar).  Catalog prices    *)
(* are whole cents, i.e. multiples of 10 mills, so that the 10% discount   *)
(* the selector computes without rounding is represented exactly.          *)
(***************************************************************************)
EXTENDS Integers, Sequences, FiniteSets

VARIABLES
  items,    \* state.cart.items: sequence of [pizzaId, quantity]
  isOpen,   \* state.cart.isOpen
  pizzas,   \* state.pizzas.items: sequence of [id, price]
  derived,  \* the value selectCartWithDetails last returned
  observe,  \* whether dispatches are recorded in last and prev
  last,     \* the last dispatched action and its payload
  prev,     \* state.cart.items before the last dispatched action
  totals,   \* the value selectCartTotals last returned
  answer,   \* the value selectCanAddToCart(pizzaId, quantity) last returned
  orders,          \* state.orders.orders: sequence of Order records
  currentOrderId,  \* state.orders.currentOrderId (NoOrder for null)
  isProcessing,    \* state.orders.isProcessing
  timers,          \* pending setTimeout callbacks of handleConfirmOrder,
                   \* oldest first, each with the values its closure holds
  callback,        \* the timer callback in execution and its position
  nextId,          \* the number of the next uuidv4() / new Date() value
  notifications,   \* state.ui.notifications: sequence of notification types
  favorites        \* state.favorites.items: sequence of [pizzaId, addedAt]

\* the order slice, the confirmation in progress and the notifications
orderVars ==
  <<orders, currentOrderId, isProcessing, timers, callback, nextId,
    notifications>>

vars ==
  <<items, isOpen, pizzas, derived, observe, last, prev, totals, answer,
    orderVars, favorites>>

(***************************************************************************)
(* Program constants.                                                      *)
(***************************************************************************)
MAX_QUANTITY_PER_ITEM == 25
MAX_TOTAL_ITEMS == 50
DISCOUNT_THRESHOLD == 3
\* DISCOUNT_PERCENTAGE = 0.1, kept as the fraction 1/10
DISCOUNT_PERCENTAGE_NUM == 1
DISCOUNT_PERCENTAGE_DEN == 10

(***************************************************************************)
(* Bounds of the model.                                                    *)
(***************************************************************************)
\* pizza identifiers the actions draw their payloads from
PizzaIds == {"p1", "p2", "p3"}
\* requested quantities of addToCart / updateQuantity payloads
Quantities == {-1, 0, 1, 4, 26}
\* catalog unit prices, in mills (whole cents): $0.35, $10.00, $12.99
Prices == {350, 10000, 12990}
\* largest line quantity and longest cart the pricing specification draws
MaxLineQty == 4
MaxLines == 2
\* line quantities of the carts the reducer specification starts from
SampleQuantities == {1, 2, 4, 5, 24, 25}

Min2(a, b) == IF a <= b THEN a ELSE b

Min3(a, b, c) == Min2(a, Min2(b, c))

(***************************************************************************)
(* Array helpers of the reducers.                                          *)
(***************************************************************************)
\* items.reduce((sum, item) => sum + item.quantity, 0)
RECURSIVE getTotalQuantity(_)
getTotalQuantity(its) ==
  IF its = <<>> THEN 0
  ELSE Head(its).quantity + getTotalQuantity(Tail(its))

\* index of the first line of pizzaId, 0 when there is none (Array.find)
RECURSIVE FindFrom(_, _, _)
FindFrom(its, pizzaId, i) ==
  IF i > Len(its) THEN 0
  ELSE IF its[i].pizzaId = pizzaId THEN i
  ELSE FindFrom(its, pizzaId, i + 1)

Find(its, pizzaId) == FindFrom(its, pizzaId, 1)

\* item?.quantity || 0
getItemQuantity(its, pizzaId) ==
  LET i == Find(its, pizzaId)
  IN IF i = 0 THEN 0
     ELSE IF its[i].quantity = 0 THEN 0 ELSE its[i].quantity

\* items.filter((item) => item.pizzaId !== pizzaId)
RECURSIVE FilterOut(_, _)
FilterOut(its, pizzaId) ==
  IF its = <<>> THEN <<>>
  ELSE IF Head(its).pizzaId = pizzaId THEN FilterOut(Tail(its), pizzaId)
  ELSE <<Head(its)>> \o FilterOut(Tail(its), pizzaId)

(***************************************************************************)
(* Reducers of the cart slice, as functions of state.items.                *)
(***************************************************************************)
\* addToCart without the per-item term of the clamp
addToCartNoPerItem(its, pizzaId, quantity) ==
  LET currentTotal == getTotalQuantity(its)
      remainingTotal == MAX_TOTAL_ITEMS - currentTotal
      quantityToAdd == Min2(quantity, remainingTotal)
      i == Find(its, pizzaId)
  IN IF quantityToAdd <= 0 THEN its
     ELSE IF i # 0
          THEN [its EXCEPT ![i].quantity = @ + quantityToAdd]
          ELSE Append(its, [pizzaId |-> pizzaId, quantity |-> quantityToAdd])

\* addToCart without the early return on quantityToAdd <= 0
addToCartNoGuard(its, pizzaId, quantity) ==
  LET currentItemQuantity == getItemQuantity(its, pizzaId)
      currentTotal == getTotalQuantity(its)
      remainingPerItem == MAX_QUANTITY_PER_ITEM - currentItemQuantity
      remainingTotal == MAX_TOTAL_ITEMS - currentTotal
      quantityToAdd == Min3(quantity, remainingPerItem, remainingTotal)
      i == Find(its, pizzaId)
  IN IF i # 0
     THEN [its EXCEPT ![i].quantity = @ + quantityToAdd]
     ELSE Append(its, [pizzaId |-> pizzaId, quantity |-> quantityToAdd])

\* addToCart without the total term of the clamp
addToCartNoTotal(its, pizzaId, quantity) ==
  LET currentItemQuantity == getItemQuantity(its, pizzaId)
      remainingPerItem == MAX_QUANTITY_PER_ITEM - currentItemQuantity
      quantityToAdd == Min2(quantity, remainingPerItem)
      i == Find(its, pizzaId)
  IN IF quantityToAdd <= 0 THEN its
     ELSE IF i # 0
          THEN [its EXCEPT ![i].quantity = @ + quantityToAdd]
          ELSE Append(its, [pizzaId |-> pizzaId, quantity |-> quantityToAdd])

\* addToCart that pushes a new line without looking for an existing one
addToCartAlwaysPush(its, pizzaId, quantity) ==
  LET currentItemQuantity == getItemQuantity(its, pizzaId)
      currentTotal == getTotalQuantity(its)
      remainingPerItem == MAX_QUANTITY_PER_ITEM - currentItemQuantity
      remainingTotal == MAX_TOTAL_ITEMS - currentTotal
      quantityToAdd == Min3(quantity, remainingPerItem, remainingTotal)
  IN IF quantityToAdd <= 0 THEN its
     ELSE Append(its, [pizzaId |-> pizzaId, quantity |-> quantityToAdd])

\* addToCart: clamp, early return, then existing line or push
addToCart(its, pizzaId, quantity) ==
  LET currentItemQuantity == getItemQuantity(its, pizzaId)
      currentTotal == getTotalQuantity(its)
      remainingPerItem == MAX_QUANTITY_PER_ITEM - currentItemQuantity
      remainingTotal == MAX_TOTAL_ITEMS - currentTotal
      quantityToAdd == Min3(quantity, remainingPerItem, remainingTotal)
      i == Find(its, pizzaId)
  IN IF quantityToAdd <= 0 THEN its
     ELSE IF i # 0
          THEN [its EXCEPT ![i].quantity = @ + quantityToAdd]
          ELSE Append(its, [pizzaId |-> pizzaId, quantity |-> quantityToAdd])

\* removal by items.splice(items.findIndex(...), 1): an index of -1 removes
\* the last line
removeFromCartSplice(its, pizzaId) ==
  LET i == Find(its, pizzaId)
      k == IF i = 0 THEN Len(its) ELSE i
  IN IF its = <<>> THEN its
     ELSE SubSeq(its, 1, k - 1) \o SubSeq(its, k + 1, Len(its))

\* removal with the filter's test inverted: only the named line is kept
removeFromCartKeepOnly(its, pizzaId) ==
  LET i == Find(its, pizzaId) IN IF i = 0 THEN <<>> ELSE <<its[i]>>

\* state.items.filter((item) => item.pizzaId !== action.payload)
removeFromCart(its, pizzaId) == FilterOut(its, pizzaId)

\* updateQuantity without the total-limit branch for increases
updateQuantityNoTotal(its, pizzaId, quantity) ==
  LET i == Find(its, pizzaId)
  IN IF i = 0 THEN its
     ELSE IF quantity <= 0 THEN FilterOut(its, pizzaId)
     ELSE [its EXCEPT ![i].quantity = Min2(quantity, MAX_QUANTITY_PER_ITEM)]

\* updateQuantity clamping the requested quantity by the remaining total
\* whether or not it is an increase
updateQuantityClampAll(its, pizzaId, quantity) ==
  LET i == Find(its, pizzaId)
  IN IF i = 0 THEN its
     ELSE IF quantity <= 0 THEN FilterOut(its, pizzaId)
     ELSE LET diff == quantity - its[i].quantity
              currentTotal == getTotalQuantity(its)
              remainingTotal == MAX_TOTAL_ITEMS - currentTotal
              maxIncrease == Min2(diff, remainingTotal)
              newQuantity ==
                IF diff > 0
                THEN Min2(its[i].quantity + maxIncrease, MAX_QUANTITY_PER_ITEM)
                ELSE Min3(quantity, MAX_QUANTITY_PER_ITEM, remainingTotal)
          IN [its EXCEPT ![i].quantity = newQuantity]

updateQuantity(its, pizzaId, quantity) ==
  LET i == Find(its, pizzaId)
  IN IF i = 0 THEN its
     ELSE IF quantity <= 0 THEN FilterOut(its, pizzaId)
     ELSE LET diff == quantity - its[i].quantity
              currentTotal == getTotalQuantity(its)
              remainingTotal == MAX_TOTAL_ITEMS - currentTotal
              maxIncrease == Min2(diff, remainingTotal)
              newQuantity ==
                IF diff > 0
                THEN Min2(its[i].quantity + maxIncrease, MAX_QUANTITY_PER_ITEM)
                ELSE Min2(quantity, MAX_QUANTITY_PER_ITEM)
          IN [its EXCEPT ![i].quantity = newQuantity]

\* incrementQuantity checking the per-item limit only
incrementQuantityNoTotal(its, pizzaId) ==
  LET i == Find(its, pizzaId)
  IN IF i = 0 THEN its
     ELSE IF its[i].quantity < MAX_QUANTITY_PER_ITEM
          THEN [its EXCEPT ![i].quantity = @ + 1]
          ELSE its

incrementQuantity(its, pizzaId) ==
  LET i == Find(its, pizzaId)
  IN IF i = 0 THEN its
     ELSE LET currentTotal == getTotalQuantity(its)
              canIncrementPerItem == its[i].quantity < MAX_QUANTITY_PER_ITEM
              canIncrementTotal == currentTotal < MAX_TOTAL_ITEMS
          IN IF canIncrementPerItem /\ canIncrementTotal
             THEN [its EXCEPT ![i].quantity = @ + 1]
             ELSE its

\* decrementQuantity removing the line only below 1 (< for <=)
decrementQuantityKeepZero(its, pizzaId) ==
  LET i == Find(its, pizzaId)
  IN IF i = 0 THEN its
     ELSE IF its[i].quantity < 1 THEN FilterOut(its, pizzaId)
     ELSE [its EXCEPT ![i].quantity = @ - 1]

decrementQuantity(its, pizzaId) ==
  LET i == Find(its, pizzaId)
  IN IF i = 0 THEN its
     ELSE IF its[i].quantity <= 1 THEN FilterOut(its, pizzaId)
     ELSE [its EXCEPT ![i].quantity = @ - 1]

clearCart(its) == <<>>

(***************************************************************************)
(* IEEE-754 doubles.  A double is [m, e] with value m * 2^e, m = 0 or      *)
(* 2^52 <= m < 2^53; m is a natural number kept as its digits in base      *)
(* 2^15, least significant first, <<>> for 0.  Every operation returns the *)
(* exact result rounded to nearest, ties to even.                          *)
(***************************************************************************)
Base == 32768
LimbBits == 15
MantissaBits == 53

RECURSIVE Pow2(_)
Pow2(n) == IF n = 0 THEN 1 ELSE 2 * Pow2(n - 1)

\* a digit in front of the digits hi, without a leading zero
Cons(d, hi) == IF d = 0 /\ hi = <<>> THEN <<>> ELSE <<d>> \o hi

RECURSIVE BigAddC(_, _, _)
BigAddC(a, b, c) ==
  IF a = <<>> /\ b = <<>> THEN Cons(c, <<>>)
  ELSE LET x == IF a = <<>> THEN 0 ELSE Head(a)
           y == IF b = <<>> THEN 0 ELSE Head(b)
           s == x + y + c
       IN Cons(s % Base,
               BigAddC(IF a = <<>> THEN a ELSE Tail(a),
                       IF b = <<>> THEN b ELSE Tail(b), s \div Base))

BigAdd(a, b) == BigAddC(a, b, 0)

\* a - b - c for a >= b + c
RECURSIVE BigSubB(_, _, _)
BigSubB(a, b, c) ==
  IF a = <<>> THEN <<>>
  ELSE LET y == IF b = <<>> THEN 0 ELSE Head(b)
           s == Head(a) - y - c
       IN Cons(s % Base,
               BigSubB(Tail(a), IF b = <<>> THEN b ELSE Tail(b),
                       IF s < 0 THEN 1 ELSE 0))

BigSub(a, b) == BigSubB(a, b, 0)

\* a * k + c for a digit k
RECURSIVE BigMulSmallC(_, _, _)
BigMulSmallC(a, k, c) ==
  IF a = <<>> THEN Cons(c, <<>>)
  ELSE LET s == Head(a) * k + c
       IN Cons(s % Base, BigMulSmallC(Tail(a), k, s \div Base))

RECURSIVE BigMul(_, _)
BigMul(a, b) ==
  IF a = <<>> \/ b = <<>> THEN <<>>
  ELSE BigAdd(BigMulSmallC(a, Head(b), 0), Cons(0, BigMul(a, Tail(b))))

\* quotient and remainder of a by a digit k
RECURSIVE BigDivSmall(_, _)
BigDivSmall(a, k) ==
  IF a = <<>> THEN [q |-> <<>>, r |-> 0]
  ELSE LET hi == BigDivSmall(Tail(a), k)
           cur == hi.r * Base + Head(a)
       IN [q |-> Cons(cur \div k, hi.q), r |-> cur % k]

RECURSIVE BitsOf(_)
BitsOf(n) == IF n = 0 THEN 0 ELSE 1 + BitsOf(n \div 2)

BitLen(a) ==
  IF a = <<>> THEN 0 ELSE LimbBits * (Len(a) - 1) + BitsOf(a[Len(a)])

RECURSIVE Zeros(_)
Zeros(n) == IF n = 0 THEN <<>> ELSE <<0>> \o Zeros(n - 1)

\* a * 2^s
ShiftLeft(a, s) ==
  IF a = <<>> THEN <<>>
  ELSE Zeros(s \div LimbBits) \o BigMulSmallC(a, Pow2(s % LimbBits), 0)

\* the digits of a from the n-th on divided by the digit k, and whether
\* anything was cut off
DropDigits(a, n, k) ==
  LET d == BigDivSmall(SubSeq(a, n + 1, Len(a)), k)
  IN [q |-> d.q, sticky |-> d.r # 0 \/ \E i \in 1..n : a[i] # 0]

\* a \div 2^s, and whether a bit was shifted out
ShiftRight(a, s) ==
  DropDigits(a, IF s \div LimbBits >= Len(a) THEN Len(a) ELSE s \div LimbBits,
             Pow2(s % LimbBits))

IsOdd(a) == a # <<>> /\ a[1] % 2 = 1

RECURSIVE ToInt(_)
ToInt(a) == IF a = <<>> THEN 0 ELSE Head(a) + Base * ToInt(Tail(a))

RECURSIVE FromNat(_)
FromNat(n) == IF n = 0 THEN <<>> ELSE <<n % Base>> \o FromNat(n \div Base)

\* m * 2^e for m < 2^54 without its last bit if it has 54 bits
Normal(m, e) ==
  IF BitLen(m) > MantissaBits
  THEN [m |-> ShiftRight(m, 1).q, e |-> e + 1]
  ELSE [m |-> m, e |-> e]

\* q * 2^e plus a rest: half says that the rest is at least half a unit of
\* q, above that it is not exactly half a unit
RoundHalf(q, e, half, above) ==
  Normal(IF half /\ (above \/ IsOdd(q)) THEN BigAdd(q, <<1>>) ELSE q, e)

\* cut.q * 2^(e - 1) for cut.q of 54 bits, plus the rest that cut.sticky
\* and sticky tell of
RoundCut(cut, e, sticky) ==
  RoundHalf(ShiftRight(cut.q, 1).q, e, IsOdd(cut.q), cut.sticky \/ sticky)

\* n * 2^e for n # 0 of len bits
RoundBits(n, e, sticky, len) ==
  IF len <= MantissaBits
  THEN [m |-> ShiftLeft(n, MantissaBits - len), e |-> e - (MantissaBits - len)]
  ELSE RoundCut(ShiftRight(n, len - MantissaBits - 1),
                e + (len - MantissaBits), sticky)

\* n * 2^e (plus less than one unit of n when sticky) as a double
Round(n, e, sticky) ==
  IF n = <<>> THEN [m |-> <<>>, e |-> 0]
  ELSE RoundBits(n, e, sticky, BitLen(n))

\* the double of a non-negative integer
Number(n) == Round(FromNat(n), 0, FALSE)

\* x * y
Times(x, y) == Round(BigMul(x.m, y.m), x.e + y.e, FALSE)

\* the mantissa of x for the exponent e <= x.e
Aligned(x, e) == ShiftLeft(x.m, x.e - e)

\* x + y
Plus(x, y) ==
  IF x.m = <<>> THEN y
  ELSE IF y.m = <<>> THEN x
  ELSE Round(BigAdd(Aligned(x, Min2(x.e, y.e)), Aligned(y, Min2(x.e, y.e))),
             Min2(x.e, y.e), FALSE)

\* x - y for x >= y
Minus(x, y) ==
  IF y.m = <<>> THEN x
  ELSE Round(BigSub(Aligned(x, Min2(x.e, y.e)), Aligned(y, Min2(x.e, y.e))),
             Min2(x.e, y.e), FALSE)

\* the double nearest to n / d for a digit d
GuardBits == 75
Ratio(n, d) ==
  LET div == BigDivSmall(ShiftLeft(FromNat(n), GuardBits), d)
  IN Round(div.q, -GuardBits, div.r # 0)

\* Math.round(x) for x >= 0: floor(x + 1/2)
MathRound(x) ==
  IF x.m = <<>> THEN 0
  ELSE IF x.e >= 0 THEN ToInt(ShiftLeft(x.m, x.e))
  ELSE ToInt(ShiftRight(BigAdd(x.m, ShiftLeft(<<1>>, -x.e - 1)), -x.e).q)

\* the double of a decimal amount given in mills: the value of a number
\* literal such as 12.99
Mills == 1000
Double(mills) == Ratio(mills, Mills)

\* CART_LIMITS.DISCOUNT_PERCENTAGE: the literal 0.1
DISCOUNT_PERCENTAGE == Ratio(DISCOUNT_PERCENTAGE_NUM, DISCOUNT_PERCENTAGE_DEN)

(***************************************************************************)
(* Selectors.  The state keeps every amount as the decimal, in mills, that *)
(* its double stands for: catalog prices are whole cents, so a line amount *)
(* is a whole number of mills and its double lies within 1e-9 of it, and a *)
(* rounded total is a whole number of cents.  Where the code rounds, the   *)
(* doubles themselves are computed, from the price and quantity of each    *)
(* line, as the map callback computed them.                                *)
(***************************************************************************)
\* Math.round(x * 100) / 100 of the double x; the quotient is the double of
\* a whole number of cents, given in mills
round2(x) == 10 * MathRound(Times(x, Number(100)))

\* an amount in mills rounded to whole cents, halves up
RoundToCents(x) == ((x + 5) \div 10) * 10

\* index of the first catalog entry of id, 0 when there is none
RECURSIVE FindPizzaFrom(_, _, _)
FindPizzaFrom(ps, id, i) ==
  IF i > Len(ps) THEN 0
  ELSE IF ps[i].id = id THEN i
  ELSE FindPizzaFrom(ps, id, i + 1)

FindPizza(ps, id) == FindPizzaFrom(ps, id, 1)

\* the derived line with the discount applied only above the threshold
OrderItemStrictThreshold(pizza, cartItem) ==
  LET originalPrice == pizza.price * cartItem.quantity
      discountAmount ==
        IF cartItem.quantity > DISCOUNT_THRESHOLD
        THEN (originalPrice * DISCOUNT_PERCENTAGE_NUM) \div DISCOUNT_PERCENTAGE_DEN
        ELSE 0
  IN [pizza |-> pizza,
      quantity |-> cartItem.quantity,
      originalPrice |-> originalPrice,
      discountAmount |-> discountAmount,
      finalPrice |-> originalPrice - discountAmount]

\* the derived line with the discount rounded to cents per line
OrderItemRounded(pizza, cartItem) ==
  LET originalPrice == pizza.price * cartItem.quantity
      discountAmount ==
        IF cartItem.quantity >= DISCOUNT_THRESHOLD
        THEN RoundToCents((originalPrice * DISCOUNT_PERCENTAGE_NUM)
                            \div DISCOUNT_PERCENTAGE_DEN)
        ELSE 0
  IN [pizza |-> pizza,
      quantity |-> cartItem.quantity,
      originalPrice |-> originalPrice,
      discountAmount |-> discountAmount,
      finalPrice |-> originalPrice - discountAmount]

\* body of the map callback of selectCartWithDetails for a pizza that exists
OrderItem(pizza, cartItem) ==
  LET originalPrice == pizza.price * cartItem.quantity
      discountAmount ==
        IF cartItem.quantity >= DISCOUNT_THRESHOLD
        THEN (originalPrice * DISCOUNT_PERCENTAGE_NUM) \div DISCOUNT_PERCENTAGE_DEN
        ELSE 0
      finalPrice == originalPrice - discountAmount
  IN [pizza |-> pizza,
      quantity |-> cartItem.quantity,
      originalPrice |-> originalPrice,
      discountAmount |-> discountAmount,
      finalPrice |-> finalPrice]

\* the derived lines in reverse cart order
RECURSIVE selectCartWithDetailsReversed(_, _)
selectCartWithDetailsReversed(cartItems, ps) ==
  IF cartItems = <<>> THEN <<>>
  ELSE LET cartItem == Head(cartItems)
           i == FindPizza(ps, cartItem.pizzaId)
           rest == selectCartWithDetailsReversed(Tail(cartItems), ps)
       IN IF i = 0 THEN rest
          ELSE rest \o <<OrderItem(ps[i], cartItem)>>

\* cartItems.map(...).filter((item) => item !== null)
RECURSIVE selectCartWithDetails(_, _)
selectCartWithDetails(cartItems, ps) ==
  IF cartItems = <<>> THEN <<>>
  ELSE LET cartItem == Head(cartItems)
           i == FindPizza(ps, cartItem.pizzaId)
           rest == selectCartWithDetails(Tail(cartItems), ps)
       IN IF i = 0 THEN rest
          ELSE <<OrderItem(ps[i], cartItem)>> \o rest

\* the sum of the lines' originalPrice as decimals
RECURSIVE SumOriginalPrice(_)
SumOriginalPrice(lines) ==
  IF lines = <<>> THEN 0
  ELSE Head(lines).originalPrice + SumOriginalPrice(Tail(lines))

\* the sum of the lines' discountAmount as decimals
RECURSIVE SumDiscountAmount(_)
SumDiscountAmount(lines) ==
  IF lines = <<>> THEN 0
  ELSE Head(lines).discountAmount + SumDiscountAmount(Tail(lines))

\* the double item.originalPrice: pizza.price * cartItem.quantity
originalPriceDouble(item) ==
  Times(Double(item.pizza.price), Number(item.quantity))

\* the double item.discountAmount: originalPrice *
\* CART_LIMITS.DISCOUNT_PERCENTAGE from the threshold on, else 0
discountAmountDouble(item) ==
  IF item.quantity >= DISCOUNT_THRESHOLD
  THEN Times(originalPriceDouble(item), DISCOUNT_PERCENTAGE)
  ELSE Number(0)

\* items.reduce((sum, item) => sum + item.originalPrice, sum)
RECURSIVE ReduceOriginalPrice(_, _)
ReduceOriginalPrice(lines, sum) ==
  IF lines = <<>> THEN sum
  ELSE ReduceOriginalPrice(Tail(lines),
                           Plus(sum, originalPriceDouble(Head(lines))))

\* items.reduce((sum, item) => sum + item.discountAmount, sum)
RECURSIVE ReduceDiscountAmount(_, _)
ReduceDiscountAmount(lines, sum) ==
  IF lines = <<>> THEN sum
  ELSE ReduceDiscountAmount(Tail(lines),
                            Plus(sum, discountAmountDouble(Head(lines))))

\* the returned object: total = subtotal - totalDiscount, and the three
\* aggregates each rounded to cents on its own
CartTotals(subtotal, totalDiscount) ==
  [subtotal |-> round2(subtotal),
   totalDiscount |-> round2(totalDiscount),
   total |-> round2(Minus(subtotal, totalDiscount))]

\* the two reduces from 0 over the derived lines, then the returned object
selectCartTotals(lines) ==
  CartTotals(ReduceOriginalPrice(lines, Number(0)),
             ReduceDiscountAmount(lines, Number(0)))

(***************************************************************************)
(* Initial state: the slices' initialState.  The catalog starts with the   *)
(* pizzas of the static data file; the model keeps one entry per id.       *)
(***************************************************************************)
NoAction == [op |-> "init", pizzaId |-> "", quantity |-> 0]

\* no read of selectCartTotals yet
NoTotals == [subtotal |-> 0, totalDiscount |-> 0, total |-> 0]

\* no read of selectCanAddToCart yet
NoAnswer == [canAdd |-> FALSE, maxAddable |-> 0, limitType |-> "none"]

\* currentOrderId: null
NoOrder == 0

\* no timer callback in execution
Idle == [pc |-> 0]

\* initialState of the order slice and of the ui slice's notifications; no
\* confirmation pending
InitOrders ==
  /\ orders = <<>>
  /\ currentOrderId = NoOrder
  /\ isProcessing = FALSE
  /\ timers = <<>>
  /\ callback = Idle
  /\ nextId = 1
  /\ notifications = <<>>

InitialPizzas ==
  << [id |-> "p1", price |-> 10000],
     [id |-> "p2", price |-> 12990],
     [id |-> "p3", price |-> 350] >>

Init ==
  /\ items = <<>>
  /\ isOpen = FALSE
  /\ pizzas = InitialPizzas
  /\ derived = <<>>
  /\ observe = FALSE
  /\ last = NoAction
  /\ prev = <<>>
  /\ totals = NoTotals
  /\ answer = NoAnswer
  /\ InitOrders
  /\ favorites = <<>>

\* the record of a dispatch, kept when observe is set
Dispatched(op, pizzaId, quantity) ==
  /\ last' = IF observe
             THEN [op |-> op, pizzaId |-> pizzaId, quantity |-> quantity]
             ELSE last
  /\ prev' = IF observe THEN items ELSE prev

(***************************************************************************)
(* Dispatches of the cart actions.                                         *)
(***************************************************************************)
AddToCart ==
  \E pizzaId \in PizzaIds, quantity \in Quantities :
    /\ items' = addToCart(items, pizzaId, quantity)
    /\ Dispatched("addToCart", pizzaId, quantity)
    /\ UNCHANGED <<isOpen, pizzas, derived, observe, totals, answer,
                   orderVars, favorites>>

RemoveFromCart ==
  \E pizzaId \in PizzaIds :
    /\ items' = removeFromCart(items, pizzaId)
    /\ Dispatched("removeFromCart", pizzaId, 0)
    /\ UNCHANGED <<isOpen, pizzas, derived, observe, totals, answer,
                   orderVars, favorites>>

UpdateQuantity ==
  \E pizzaId \in PizzaIds, quantity \in Quantities :
    /\ items' = updateQuantity(items, pizzaId, quantity)
    /\ Dispatched("updateQuantity", pizzaId, quantity)
    /\ UNCHANGED <<isOpen, pizzas, derived, observe, totals, answer,
                   orderVars, favorites>>

IncrementQuantity ==
  \E pizzaId \in PizzaIds :
    /\ items' = incrementQuantity(items, pizzaId)
    /\ Dispatched("incrementQuantity", pizzaId, 0)
    /\ UNCHANGED <<isOpen, pizzas, derived, observe, totals, answer,
                   orderVars, favorites>>

DecrementQuantity ==
  \E pizzaId \in PizzaIds :
    /\ items' = decrementQuantity(items, pizzaId)
    /\ Dispatched("decrementQuantity", pizzaId, 0)
    /\ UNCHANGED <<isOpen, pizzas, derived, observe, totals, answer,
                   orderVars, favorites>>

ClearCart ==
  /\ items' = clearCart(items)
  /\ Dispatched("clearCart", "", 0)
  /\ UNCHANGED <<isOpen, pizzas, derived, observe, totals, answer, orderVars,
                 favorites>>

ToggleCart ==
  /\ isOpen' = ~isOpen
  /\ Dispatched("toggleCart", "", 0)
  /\ UNCHANGED <<items, pizzas, derived, observe, totals, answer, orderVars,
                 favorites>>

SetCartOpen ==
  \E open \in BOOLEAN :
    /\ isOpen' = open
    /\ Dispatched("setCartOpen", "", 0)
    /\ UNCHANGED <<items, pizzas, derived, observe, totals, answer, orderVars,
                   favorites>>

Next ==
  \/ AddToCart
  \/ RemoveFromCart
  \/ UpdateQuantity
  \/ IncrementQuantity
  \/ DecrementQuantity
  \/ ClearCart
  \/ ToggleCart
  \/ SetCartOpen

\* every sequence of cart dispatches from the empty cart
Spec == Init /\ [][Next]_vars

(***************************************************************************)
(* Reducer specification: one cart dispatch, observed, on a cart the       *)
(* reducers can produce (distinct pizzas, quantities in 1..25, total at    *)
(* most 50).                                                               *)
(***************************************************************************)
StoredLines == [pizzaId : PizzaIds, quantity : SampleQuantities]

StoredCarts ==
  { c \in UNION { [1..n -> StoredLines] : n \in 0..Cardinality(PizzaIds) } :
      /\ \A i, j \in DOMAIN c : i # j => c[i].pizzaId # c[j].pizzaId
      /\ getTotalQuantity(c) <= MAX_TOTAL_ITEMS }

InitReducers ==
  /\ items \in StoredCarts
  /\ isOpen = FALSE
  /\ pizzas = InitialPizzas
  /\ derived = <<>>
  /\ observe = TRUE
  /\ last = NoAction
  /\ prev = items
  /\ totals = NoTotals
  /\ answer = NoAnswer
  /\ InitOrders
  /\ favorites = <<>>

\* the dispatches of Next, enabled until one has been observed
NextReducers ==
  \/ last = NoAction /\ AddToCart
  \/ last = NoAction /\ RemoveFromCart
  \/ last = NoAction /\ UpdateQuantity
  \/ last = NoAction /\ IncrementQuantity
  \/ last = NoAction /\ DecrementQuantity
  \/ last = NoAction /\ ClearCart
  \/ last = NoAction /\ ToggleCart
  \/ last = NoAction /\ SetCartOpen

SpecReducers == InitReducers /\ [][NextReducers]_vars

\* the stored carts with the drawer closed or open
InitFrame ==
  /\ items \in StoredCarts
  /\ isOpen \in BOOLEAN
  /\ pizzas = InitialPizzas
  /\ derived = <<>>
  /\ observe = TRUE
  /\ last = NoAction
  /\ prev = items
  /\ totals = NoTotals
  /\ answer = NoAnswer
  /\ InitOrders
  /\ favorites = <<>>

\* one observed cart dispatch with the drawer closed or open
SpecFrame == InitFrame /\ [][NextReducers]_vars

(***************************************************************************)
(* Pricing specification: the selector applied to a cart the reducers can  *)
(* produce (distinct pizzas, quantities >= 1) and to a catalog of pizzas   *)
(* with positive whole-cent prices, some of the cart's pizzas possibly     *)
(* missing from it.                                                        *)
(***************************************************************************)
IdOrder == <<"p1", "p2", "p3">>

RECURSIVE CatalogFrom(_, _, _)
CatalogFrom(present, price, i) ==
  IF i > Len(IdOrder) THEN <<>>
  ELSE IF IdOrder[i] \in present
       THEN <<[id |-> IdOrder[i], price |-> price[IdOrder[i]]]>>
              \o CatalogFrom(present, price, i + 1)
       ELSE CatalogFrom(present, price, i + 1)

Catalogs ==
  { CatalogFrom(present, price, 1) :
      present \in SUBSET PizzaIds, price \in [PizzaIds -> Prices] }

CartLines == [pizzaId : PizzaIds, quantity : 1..MaxLineQty]

Carts ==
  { c \in UNION { [1..n -> CartLines] : n \in 0..MaxLines } :
      \A i, j \in DOMAIN c : i # j => c[i].pizzaId # c[j].pizzaId }

InitPricing ==
  /\ items \in Carts
  /\ isOpen = FALSE
  /\ pizzas \in Catalogs
  /\ derived = <<>>
  /\ observe = TRUE
  /\ last = NoAction
  /\ prev = items
  /\ totals = NoTotals
  /\ answer = NoAnswer
  /\ InitOrders
  /\ favorites = <<>>

\* a read of the selector
SelectCartWithDetails ==
  /\ derived' = selectCartWithDetails(items, pizzas)
  /\ last' = [op |-> "selectCartWithDetails", pizzaId |-> "", quantity |-> 0]
  /\ UNCHANGED <<items, isOpen, pizzas, observe, prev, totals, answer,
                 orderVars, favorites>>

\* a read of selectCartTotals, which reads selectCartWithDetails
SelectCartTotals ==
  /\ derived' = selectCartWithDetails(items, pizzas)
  /\ totals' = selectCartTotals(selectCartWithDetails(items, pizzas))
  /\ last' = [op |-> "selectCartTotals", pizzaId |-> "", quantity |-> 0]
  /\ UNCHANGED <<items, isOpen, pizzas, observe, prev, answer, orderVars,
                 favorites>>

NextPricing ==
  \/ SelectCartWithDetails
  \/ SelectCartTotals

SpecPricing == InitPricing /\ [][NextPricing]_vars

(***************************************************************************)
(* Catalog slice reducers.                                                 *)
(***************************************************************************)
\* state.items.push(action.payload)
addPizza(ps, pizza) == Append(ps, pizza)

\* findIndex by id, then state.items[index] = action.payload
updatePizza(ps, pizza) ==
  LET index == FindPizza(ps, pizza.id)
  IN IF index # 0 THEN [ps EXCEPT ![index] = pizza] ELSE ps

\* state.items.filter((p) => p.id !== action.payload)
RECURSIVE removePizza(_, _)
removePizza(ps, id) ==
  IF ps = <<>> THEN <<>>
  ELSE IF Head(ps).id = id THEN removePizza(Tail(ps), id)
       ELSE <<Head(ps)>> \o removePizza(Tail(ps), id)

(***************************************************************************)
(* Order slice reducers, on state.orders.orders.                           *)
(***************************************************************************)
\* the order pushed twice
addOrderTwice(ords, order) == Append(Append(ords, order), order)

\* state.orders.push(action.payload)
addOrder(ords, order) == Append(ords, order)

\* the status set on every order of the log
updateOrderStatusAll(ords, orderId, status) ==
  [i \in DOMAIN ords |-> [ords[i] EXCEPT !.status = status]]

\* orders.find by id; if found, order.status = status
updateOrderStatus(ords, orderId, status) ==
  IF \E i \in DOMAIN ords : ords[i].id = orderId
  THEN LET first == CHOOSE i \in DOMAIN ords :
                      /\ ords[i].id = orderId
                      /\ \A j \in 1..(i - 1) : ords[j].id # orderId
       IN [ords EXCEPT ![first].status = status]
  ELSE ords

\* state.orders.filter((o) => o.id !== action.payload)
RECURSIVE removeOrder(_, _)
removeOrder(ords, orderId) ==
  IF ords = <<>> THEN <<>>
  ELSE IF Head(ords).id = orderId THEN removeOrder(Tail(ords), orderId)
       ELSE <<Head(ords)>> \o removeOrder(Tail(ords), orderId)

(***************************************************************************)
(* Ui slice reducers, on state.ui.notifications.  A notification is kept   *)
(* as its type, a limit warning as the name of its message; its id is a    *)
(* fresh uuidv4(), so a notification of the list is named by its position. *)
(***************************************************************************)
\* state.notifications.push(action.payload)
addNotification(ns, type) == Append(ns, type)

\* state.notifications.filter((n) => n.id !== action.payload), for the id
\* of the index-th notification
removeNotification(ns, index) ==
  SubSeq(ns, 1, index - 1) \o SubSeq(ns, index + 1, Len(ns))

\* state.notifications = []
clearNotifications(ns) == <<>>

(***************************************************************************)
(* Order confirmation: handleConfirmOrder of the Cart page, of             *)
(* OrderSummary and of CartDrawer.  The handler reads the derived lines    *)
(* and totals of the current render, and on a non-empty derived cart sets  *)
(* the processing flag and schedules a timer whose closure keeps those two *)
(* values.  All timers have the same delay, so they fire in the order in   *)
(* which they were scheduled.  The callback's dispatches are separate      *)
(* store states; nothing else runs between them.  The three handlers       *)
(* differ in the dispatches that follow setProcessing(false).              *)
(***************************************************************************)
\* confirmations accepted in one run
MaxConfirms == 2
\* largest total quantity of the cart in the confirmation specification
MaxOrderQty == 2
\* notifications shown at once
MaxNotifications == 2
\* notifications shown at once in the confirmation specification
MaxConfirmNotifications == 1
\* pizzas removed from the catalog in the confirmation specification
MaxRemoved == 1

\* the components that carry a handleConfirmOrder
Handlers == {"Cart", "OrderSummary", "CartDrawer"}

\* the dispatches of the timer callback, in program order
TimerCallbackClearFirst(handler) ==
  <<"clearCart", "addOrder", "setProcessing">> \o
  (IF handler = "Cart" THEN <<>>
   ELSE IF handler = "OrderSummary" THEN <<"addNotification">>
   ELSE <<"setCartOpen", "addNotification">>)

TimerCallback(handler) ==
  <<"addOrder", "clearCart", "setProcessing">> \o
  (IF handler = "Cart" THEN <<>>
   ELSE IF handler = "OrderSummary" THEN <<"addNotification">>
   ELSE <<"setCartOpen", "addNotification">>)

\* the order literal of the callback: uuidv4() and new Date() are the n-th
\* fresh values
OrderOf(closure, n) ==
  [id |-> n,
   items |-> closure.cartItems,
   subtotal |-> closure.totals.subtotal,
   totalDiscount |-> closure.totals.totalDiscount,
   total |-> closure.totals.total,
   createdAt |-> n,
   status |-> "confirmed"]

\* a handler without the emptiness test
RejectsNever(cartItems, stored) == FALSE

\* the handler rejects: cartItems.length === 0, on the derived lines
Rejects(cartItems, stored) == cartItems = <<>>

\* the callback's dispatches from position pc on include addNotification
Notifies(handler, pc) ==
  \E i \in pc..Len(TimerCallback(handler)) :
    TimerCallback(handler)[i] = "addNotification"

\* the notifications that the scheduled timers and the running callback
\* are still to push
Announced ==
  Cardinality({i \in DOMAIN timers : Notifies(timers[i].handler, 1)})
    + (IF callback.pc > 0 /\ Notifies(callback.closure.handler, callback.pc)
       THEN 1 ELSE 0)

\* a user event may push one more notification: the list stays within
\* MaxNotifications also after the callbacks under way have pushed theirs
NotificationRoom == Len(notifications) + Announced < MaxNotifications

\* handleConfirmOrder up to the scheduling of the timer.  The closure
\* record also keeps the component of the handler, the stored cart lines
\* at the click and the number of timers that were pending at the click
\* (history, read by the properties only).
ConfirmOrder ==
  \E handler \in Handlers :
    /\ callback = Idle
    /\ LET cartItems == selectCartWithDetails(items, pizzas)
           cartTotals == selectCartTotals(cartItems)
       IN IF Rejects(cartItems, items)
          THEN /\ NotificationRoom
               /\ notifications' = addNotification(notifications, "error")
               /\ UNCHANGED <<isProcessing, timers>>
          ELSE /\ nextId + Len(timers) <= MaxConfirms
               /\ Notifies(handler, 1) => NotificationRoom
               /\ isProcessing' = TRUE
               /\ timers' = Append(timers, [handler |-> handler,
                                            cartItems |-> cartItems,
                                            totals |-> cartTotals,
                                            clicked |-> items,
                                            pending |-> Len(timers)])
               /\ UNCHANGED notifications
    /\ UNCHANGED <<items, isOpen, pizzas, derived, observe, last, prev,
                   totals, answer, orders, currentOrderId, callback, nextId,
                   favorites>>

\* the oldest timer fires: the callback builds its order.  The record of
\* the running callback also keeps the cart lines and the length of the
\* order log at this moment (history).
TimerFires ==
  /\ callback = Idle
  /\ timers # <<>>
  /\ callback' =
       [pc |-> 1,
        closure |-> Head(timers),
        order |-> OrderOf(Head(timers), nextId),
        startItems |-> items,
        startLen |-> Len(orders)]
  /\ timers' = Tail(timers)
  /\ nextId' = nextId + 1
  /\ UNCHANGED <<items, isOpen, pizzas, derived, observe, last, prev, totals,
                 answer, orders, currentOrderId, isProcessing, notifications,
                 favorites>>

\* the next dispatch of the running callback
Dispatching(op) ==
  /\ callback.pc > 0
  /\ callback.pc \in DOMAIN TimerCallback(callback.closure.handler)
  /\ TimerCallback(callback.closure.handler)[callback.pc] = op

\* dispatch(addOrder(order))
CallbackAddOrder ==
  /\ Dispatching("addOrder")
  /\ orders' = addOrder(orders, callback.order)
  /\ currentOrderId' = callback.order.id
  /\ callback' = [callback EXCEPT !.pc = @ + 1]
  /\ UNCHANGED <<items, isOpen, pizzas, derived, observe, last, prev, totals,
                 answer, isProcessing, timers, nextId, notifications,
                 favorites>>

\* dispatch(clearCart())
CallbackClearCart ==
  /\ Dispatching("clearCart")
  /\ items' = clearCart(items)
  /\ callback' = [callback EXCEPT !.pc = @ + 1]
  /\ UNCHANGED <<isOpen, pizzas, derived, observe, last, prev, totals, answer,
                 orders, currentOrderId, isProcessing, timers, nextId,
                 notifications, favorites>>

\* dispatch(setProcessing(false))
CallbackSetProcessing ==
  /\ Dispatching("setProcessing")
  /\ isProcessing' = FALSE
  /\ callback' = [callback EXCEPT !.pc = @ + 1]
  /\ UNCHANGED <<items, isOpen, pizzas, derived, observe, last, prev, totals,
                 answer, orders, currentOrderId, timers, nextId,
                 notifications, favorites>>

\* dispatch(setCartOpen(false)) of the CartDrawer callback
CallbackSetCartOpen ==
  /\ Dispatching("setCartOpen")
  /\ isOpen' = FALSE
  /\ callback' = [callback EXCEPT !.pc = @ + 1]
  /\ UNCHANGED <<items, pizzas, derived, observe, last, prev, totals, answer,
                 orders, currentOrderId, isProcessing, timers, nextId,
                 notifications, favorites>>

\* dispatch(addNotification({type: 'success', ...})) of the OrderSummary
\* and CartDrawer callbacks
CallbackAddNotification ==
  /\ Dispatching("addNotification")
  /\ notifications' = addNotification(notifications, "success")
  /\ callback' = [callback EXCEPT !.pc = @ + 1]
  /\ UNCHANGED <<items, isOpen, pizzas, derived, observe, last, prev, totals,
                 answer, orders, currentOrderId, isProcessing, timers, nextId,
                 favorites>>

\* the callback returns (on the Cart page after setting the success modal's
\* component state)
CallbackReturns ==
  /\ callback.pc > 0
  /\ callback.pc = Len(TimerCallback(callback.closure.handler)) + 1
  /\ callback' = Idle
  /\ UNCHANGED <<items, isOpen, pizzas, derived, observe, last, prev, totals,
                 answer, orders, currentOrderId, isProcessing, timers, nextId,
                 notifications, favorites>>

\* dispatch(removePizza(id))
RemovePizza ==
  \E id \in PizzaIds :
    /\ pizzas' = removePizza(pizzas, id)
    /\ Dispatched("removePizza", id, 0)
    /\ UNCHANGED <<items, isOpen, derived, observe, totals, answer, orderVars,
                   favorites>>

\* handleClearCart of the Cart page, OrderSummary and CartDrawer:
\* dispatch(clearCart()), then an info notification
HandleClearCart ==
  /\ NotificationRoom
  /\ items' = clearCart(items)
  /\ notifications' = addNotification(notifications, "info")
  /\ Dispatched("handleClearCart", "", 0)
  /\ UNCHANGED <<isOpen, pizzas, derived, observe, totals, answer, orders,
                 currentOrderId, isProcessing, timers, callback, nextId,
                 favorites>>

\* dispatch(clearNotifications()); the action is exported by the ui slice
\* and dispatched by no component
ClearNotifications ==
  /\ notifications' = clearNotifications(notifications)
  /\ Dispatched("clearNotifications", "", 0)
  /\ UNCHANGED <<items, isOpen, pizzas, derived, observe, totals, answer,
                 orders, currentOrderId, isProcessing, timers, callback,
                 nextId, favorites>>

\* dispatch(removeNotification(id)) of a toast, on its timer or on a click
\* of its close button
RemoveNotification ==
  \E index \in DOMAIN notifications :
    /\ notifications' = removeNotification(notifications, index)
    /\ Dispatched("removeNotification", "", 0)
    /\ UNCHANGED <<items, isOpen, pizzas, derived, observe, totals, answer,
                   orders, currentOrderId, isProcessing, timers, callback,
                   nextId, favorites>>

\* the bound on the cart of the confirmation specification
SmallCart(its) == getTotalQuantity(its) <= MaxOrderQty

\* the bound on the notifications of the confirmation specification: those
\* on display and those that the callbacks under way are still to push
FewNotifications ==
  Len(notifications') + Announced' <= MaxConfirmNotifications

\* the bound on the catalog of the confirmation specification
LargeCatalog(ps) == Len(ps) >= Len(InitialPizzas) - MaxRemoved

\* user events and toast timers run only between callbacks; a timer
\* callback, once started, runs to its return.  The cart dispatches are
\* those that a component makes (no component dispatches updateQuantity).
NextConfirm ==
  \/ callback = Idle /\ AddToCart /\ SmallCart(items')
  \/ callback = Idle /\ RemoveFromCart
  \/ callback = Idle /\ IncrementQuantity /\ SmallCart(items')
  \/ callback = Idle /\ DecrementQuantity
  \/ callback = Idle /\ HandleClearCart /\ FewNotifications
  \/ callback = Idle /\ ToggleCart
  \/ callback = Idle /\ RemovePizza /\ LargeCatalog(pizzas')
  \/ callback = Idle /\ RemoveNotification
  \/ callback = Idle /\ ClearNotifications
  \/ ConfirmOrder /\ FewNotifications
  \/ TimerFires
  \/ CallbackAddOrder
  \/ CallbackClearCart
  \/ CallbackSetProcessing
  \/ CallbackSetCartOpen
  \/ CallbackAddNotification
  \/ CallbackReturns

SpecConfirm == Init /\ [][NextConfirm]_vars

(***************************************************************************)
(* Pending confirmations: the confirm button is clicked on a cart of the   *)
(* pricing specification and the cart is left alone.  The event loop runs  *)
(* every scheduled timer, and a callback that has started runs to its      *)
(* return, so each of these steps is taken once it stays enabled.          *)
(***************************************************************************)
InitPending ==
  /\ items \in Carts
  /\ isOpen = FALSE
  /\ pizzas = InitialPizzas
  /\ derived = <<>>
  /\ observe = FALSE
  /\ last = NoAction
  /\ prev = <<>>
  /\ totals = NoTotals
  /\ answer = NoAnswer
  /\ InitOrders
  /\ favorites = <<>>

NextPending ==
  \/ ConfirmOrder
  \/ callback = Idle /\ ToggleCart
  \/ callback = Idle /\ RemoveNotification
  \/ callback = Idle /\ ClearNotifications
  \/ TimerFires
  \/ CallbackAddOrder
  \/ CallbackClearCart
  \/ CallbackSetProcessing
  \/ CallbackSetCartOpen
  \/ CallbackAddNotification
  \/ CallbackReturns

SpecPending ==
  /\ InitPending
  /\ [][NextPending]_vars
  /\ WF_vars(TimerFires)
  /\ WF_vars(CallbackAddOrder)
  /\ WF_vars(CallbackClearCart)
  /\ WF_vars(CallbackSetProcessing)
  /\ WF_vars(CallbackSetCartOpen)
  /\ WF_vars(CallbackAddNotification)
  /\ WF_vars(CallbackReturns)

(***************************************************************************)
(* Order log specification: one observed dispatch on the cart, the catalog *)
(* or the order log, or a confirmation run to its completion, from a store *)
(* whose log holds orders that earlier confirmations appended.             *)
(***************************************************************************)
\* OrderStatus
OrderStatuses == {"pending", "confirmed", "preparing", "ready", "delivered"}

\* order ids of the order actions' payloads: those of the log and one more
OrderIds == 1..(MaxConfirms + 1)

\* the id of a pizza added through the AddPizza form
NewPizzaIds == {"p4"}

\* the record of a dispatch on the order slice, kept when observe is set
DispatchedOrder(op, orderId) ==
  /\ last' = IF observe THEN [op |-> op, orderId |-> orderId] ELSE last
  /\ prev' = IF observe THEN items ELSE prev

\* the timer callback of the AddPizza form's onSubmit: it builds the pizza
\* with a fresh id, dispatches addPizza(newPizza) and then a success
\* notification.  onSubmit itself only sets component state and schedules
\* this callback.
AddPizza ==
  \E id \in NewPizzaIds, price \in Prices :
    /\ FindPizza(pizzas, id) = 0
    /\ NotificationRoom
    /\ pizzas' = addPizza(pizzas, [id |-> id, price |-> price])
    /\ notifications' = addNotification(notifications, "success")
    /\ Dispatched("addPizza", id, 0)
    /\ UNCHANGED <<items, isOpen, derived, observe, totals, answer, orders,
                   currentOrderId, isProcessing, timers, callback, nextId,
                   favorites>>

\* dispatch(updatePizza(pizza))
UpdatePizza ==
  \E id \in PizzaIds \cup NewPizzaIds, price \in Prices :
    /\ pizzas' = updatePizza(pizzas, [id |-> id, price |-> price])
    /\ Dispatched("updatePizza", id, 0)
    /\ UNCHANGED <<items, isOpen, derived, observe, totals, answer, orderVars,
                   favorites>>

\* dispatch(updateOrderStatus({orderId, status}))
UpdateOrderStatus ==
  \E orderId \in OrderIds, status \in OrderStatuses :
    /\ orders' = updateOrderStatus(orders, orderId, status)
    /\ DispatchedOrder("updateOrderStatus", orderId)
    /\ UNCHANGED <<items, isOpen, pizzas, derived, observe, totals, answer,
                   currentOrderId, isProcessing, timers, callback, nextId,
                   notifications, favorites>>

\* dispatch(removeOrder(orderId))
RemoveOrder ==
  \E orderId \in OrderIds :
    /\ orders' = removeOrder(orders, orderId)
    /\ DispatchedOrder("removeOrder", orderId)
    /\ UNCHANGED <<items, isOpen, pizzas, derived, observe, totals, answer,
                   currentOrderId, isProcessing, timers, callback, nextId,
                   notifications, favorites>>

\* handleDeleteOrder of the order history page: dispatch(removeOrder(
\* orderId)) for an order of the list, then an info notification
HandleDeleteOrder ==
  \E n \in DOMAIN orders :
    /\ NotificationRoom
    /\ orders' = removeOrder(orders, orders[n].id)
    /\ notifications' = addNotification(notifications, "info")
    /\ DispatchedOrder("handleDeleteOrder", orders[n].id)
    /\ UNCHANGED <<items, isOpen, pizzas, derived, observe, totals, answer,
                   currentOrderId, isProcessing, timers, callback, nextId,
                   favorites>>

\* dispatch(clearCurrentOrder())
ClearCurrentOrder ==
  /\ currentOrderId' = NoOrder
  /\ DispatchedOrder("clearCurrentOrder", NoOrder)
  /\ UNCHANGED <<items, isOpen, pizzas, derived, observe, totals, answer,
                 orders, isProcessing, timers, callback, nextId,
                 notifications, favorites>>

\* carts that were confirmed earlier: one discounted line; two lines
SampleOrderCarts ==
  { <<[pizzaId |-> "p1", quantity |-> 3]>>,
    <<[pizzaId |-> "p2", quantity |-> 1], [pizzaId |-> "p3", quantity |-> 2]>> }

\* the order the n-th confirmation appended for cart c
StoredOrder(c, n, status) ==
  LET cartItems == selectCartWithDetails(c, InitialPizzas)
      order == OrderOf([cartItems |-> cartItems,
                        totals |-> selectCartTotals(cartItems)], n)
  IN [order EXCEPT !.status = status]

\* the logs of len orders with ids 1, 2, ... in log order
RECURSIVE LogsOfLength(_)
LogsOfLength(len) ==
  IF len = 0 THEN {<<>>}
  ELSE { Append(log, StoredOrder(c, len, st)) :
           log \in LogsOfLength(len - 1),
           c \in SampleOrderCarts,
           st \in OrderStatuses }

\* logs of up to MaxConfirms orders
StoredLogs == UNION { LogsOfLength(len) : len \in 0..MaxConfirms }

InitOrderLog ==
  /\ items \in SampleOrderCarts \cup {<<>>}
  /\ isOpen = FALSE
  /\ pizzas = InitialPizzas
  /\ derived = <<>>
  /\ observe = TRUE
  /\ last = NoAction
  /\ prev = items
  /\ totals = NoTotals
  /\ answer = NoAnswer
  /\ orders \in StoredLogs
  /\ currentOrderId \in {NoOrder, Len(orders)}
  /\ isProcessing = FALSE
  /\ timers = <<>>
  /\ callback = Idle
  /\ nextId = Len(orders) + 1
  /\ notifications = <<>>
  /\ favorites = <<>>

\* a behaviour records one store action: it has not been dispatched yet and
\* no callback is running.  Confirmations are clicked and their timers
\* fire before and after it.
Ready == last = NoAction /\ callback = Idle

NextOrderLog ==
  \/ Ready /\ AddToCart
  \/ Ready /\ RemoveFromCart
  \/ Ready /\ UpdateQuantity
  \/ Ready /\ IncrementQuantity
  \/ Ready /\ DecrementQuantity
  \/ Ready /\ ClearCart
  \/ Ready /\ AddPizza
  \/ Ready /\ UpdatePizza
  \/ Ready /\ RemovePizza
  \/ Ready /\ UpdateOrderStatus
  \/ Ready /\ RemoveOrder
  \/ Ready /\ HandleDeleteOrder
  \/ Ready /\ ClearCurrentOrder
  \/ ConfirmOrder
  \/ TimerFires
  \/ CallbackAddOrder
  \/ CallbackClearCart
  \/ CallbackSetProcessing
  \/ CallbackSetCartOpen
  \/ CallbackAddNotification
  \/ CallbackReturns

SpecOrderLog == InitOrderLog /\ [][NextOrderLog]_vars

(***************************************************************************)
(* Limit predicates of the selectors, read on a stored cart.               *)
(***************************************************************************)
\* requested quantities of the selectCanAddToCart reads
AskQuantities == {1, 2, 21, 26}

\* the limit type with ties going to the total limit
selectCanAddToCartTotalFirst(its, pizzaId, quantity) ==
  LET currentItemQuantity == getItemQuantity(its, pizzaId)
      remainingPerItem == MAX_QUANTITY_PER_ITEM - currentItemQuantity
      remainingTotal == MAX_TOTAL_ITEMS - getTotalQuantity(its)
      maxAddable == Min2(remainingPerItem, remainingTotal)
  IN IF maxAddable <= 0
     THEN [canAdd |-> FALSE,
           maxAddable |-> 0,
           limitType |-> IF remainingPerItem <= 0 THEN "per_item" ELSE "total"]
     ELSE [canAdd |-> quantity <= maxAddable,
           maxAddable |-> maxAddable,
           limitType |-> IF quantity > maxAddable
                         THEN IF remainingPerItem < remainingTotal
                              THEN "per_item" ELSE "total"
                         ELSE "none"]

\* the predicate without the total limit
selectCanAddToCartPerItemOnly(its, pizzaId, quantity) ==
  LET maxAddable == MAX_QUANTITY_PER_ITEM - getItemQuantity(its, pizzaId)
  IN IF maxAddable <= 0
     THEN [canAdd |-> FALSE, maxAddable |-> 0, limitType |-> "per_item"]
     ELSE [canAdd |-> quantity <= maxAddable,
           maxAddable |-> maxAddable,
           limitType |-> IF quantity > maxAddable THEN "per_item" ELSE "none"]

\* selectCanAddToCart(pizzaId, quantity) on the cart lines; totalCount is
\* selectCartItemsCount, the sum of the stored quantities
selectCanAddToCart(its, pizzaId, quantity) ==
  LET currentItemQuantity == getItemQuantity(its, pizzaId)
      remainingPerItem == MAX_QUANTITY_PER_ITEM - currentItemQuantity
      remainingTotal == MAX_TOTAL_ITEMS - getTotalQuantity(its)
      maxAddable == Min2(remainingPerItem, remainingTotal)
  IN IF maxAddable <= 0
     THEN [canAdd |-> FALSE,
           maxAddable |-> 0,
           limitType |-> IF remainingPerItem <= 0 THEN "per_item" ELSE "total"]
     ELSE [canAdd |-> quantity <= maxAddable,
           maxAddable |-> maxAddable,
           limitType |-> IF quantity > maxAddable
                         THEN IF remainingPerItem <= remainingTotal
                              THEN "per_item" ELSE "total"
                         ELSE "none"]

\* a read of selectCanAddToCart(pizzaId, quantity)
SelectCanAddToCart ==
  \E pizzaId \in PizzaIds, quantity \in AskQuantities :
    /\ answer' = selectCanAddToCart(items, pizzaId, quantity)
    /\ last' = [op |-> "selectCanAddToCart",
                pizzaId |-> pizzaId, quantity |-> quantity]
    /\ UNCHANGED <<items, isOpen, pizzas, derived, observe, prev, totals,
                   orderVars, favorites>>

NextLimits == SelectCanAddToCart

\* the limit predicates read on the stored carts of the reducer
\* specification
SpecLimits == InitReducers /\ [][NextLimits]_vars

(***************************************************************************)
(* Favorites slice.  addedAt is the number of the new Date() value.        *)
(***************************************************************************)
\* timestamps taken in one run of the favorites specification
MaxStamps == 4

\* state.items.some((item) => item.pizzaId === pizzaId)
IsFavorite(favs, pizzaId) == \E i \in DOMAIN favs : favs[i].pizzaId = pizzaId

\* state.items.filter((item) => item.pizzaId !== action.payload)
RECURSIVE removeFromFavorites(_, _)
removeFromFavorites(favs, pizzaId) ==
  IF favs = <<>> THEN <<>>
  ELSE IF Head(favs).pizzaId = pizzaId
       THEN removeFromFavorites(Tail(favs), pizzaId)
       ELSE <<Head(favs)>> \o removeFromFavorites(Tail(favs), pizzaId)

\* push unless an entry of pizzaId exists
addToFavorites(favs, pizzaId, now) ==
  IF ~IsFavorite(favs, pizzaId)
  THEN Append(favs, [pizzaId |-> pizzaId, addedAt |-> now])
  ELSE favs

\* a toggle that always pushes
toggleFavoritePush(favs, pizzaId, now) ==
  Append(favs, [pizzaId |-> pizzaId, addedAt |-> now])

\* findIndex; splice(index, 1) if found, else push
toggleFavorite(favs, pizzaId, now) ==
  IF IsFavorite(favs, pizzaId)
  THEN LET index == CHOOSE i \in DOMAIN favs :
                      /\ favs[i].pizzaId = pizzaId
                      /\ \A j \in 1..(i - 1) : favs[j].pizzaId # pizzaId
       IN SubSeq(favs, 1, index - 1) \o SubSeq(favs, index + 1, Len(favs))
  ELSE Append(favs, [pizzaId |-> pizzaId, addedAt |-> now])

\* state.items = []
clearFavorites(favs) == <<>>

\* the dispatches of the favorites actions; a dispatch that pushes an entry
\* takes the next timestamp
AddToFavorites ==
  \E pizzaId \in PizzaIds :
    /\ nextId <= MaxStamps
    /\ favorites' = addToFavorites(favorites, pizzaId, nextId)
    /\ nextId' = IF favorites' # favorites THEN nextId + 1 ELSE nextId
    /\ Dispatched("addToFavorites", pizzaId, 0)
    /\ UNCHANGED <<items, isOpen, pizzas, derived, observe, totals, answer,
                   orders, currentOrderId, isProcessing, timers, callback,
                   notifications>>

RemoveFromFavorites ==
  \E pizzaId \in PizzaIds :
    /\ favorites' = removeFromFavorites(favorites, pizzaId)
    /\ Dispatched("removeFromFavorites", pizzaId, 0)
    /\ UNCHANGED <<items, isOpen, pizzas, derived, observe, totals, answer,
                   orderVars>>

ToggleFavorite ==
  \E pizzaId \in PizzaIds :
    /\ nextId <= MaxStamps
    /\ favorites' = toggleFavorite(favorites, pizzaId, nextId)
    /\ nextId' = IF Len(favorites') > Len(favorites)
                 THEN nextId + 1 ELSE nextId
    /\ Dispatched("toggleFavorite", pizzaId, 0)
    /\ UNCHANGED <<items, isOpen, pizzas, derived, observe, totals, answer,
                   orders, currentOrderId, isProcessing, timers, callback,
                   notifications>>

\* handleToggleFavorite of PizzaCard: dispatch(toggleFavorite(pizza.id)),
\* then a notification whose type is read from isFavorite of the render
HandleToggleFavorite ==
  \E pizzaId \in PizzaIds :
    /\ nextId <= MaxStamps
    /\ NotificationRoom
    /\ favorites' = toggleFavorite(favorites, pizzaId, nextId)
    /\ nextId' = IF Len(favorites') > Len(favorites)
                 THEN nextId + 1 ELSE nextId
    /\ notifications' =
         addNotification(notifications,
                         IF IsFavorite(favorites, pizzaId)
                         THEN "info" ELSE "success")
    /\ Dispatched("handleToggleFavorite", pizzaId, 0)
    /\ UNCHANGED <<items, isOpen, pizzas, derived, observe, totals, answer,
                   orders, currentOrderId, isProcessing, timers, callback>>

ClearFavorites ==
  /\ favorites' = clearFavorites(favorites)
  /\ Dispatched("clearFavorites", "", 0)
  /\ UNCHANGED <<items, isOpen, pizzas, derived, observe, totals, answer,
                 orderVars>>

\* the initial store, with dispatches recorded
InitFavorites ==
  /\ items = <<>>
  /\ isOpen = FALSE
  /\ pizzas = InitialPizzas
  /\ derived = <<>>
  /\ observe = TRUE
  /\ last = NoAction
  /\ prev = <<>>
  /\ totals = NoTotals
  /\ answer = NoAnswer
  /\ InitOrders
  /\ favorites = <<>>

NextFavorites ==
  \/ AddToFavorites
  \/ RemoveFromFavorites
  \/ ToggleFavorite
  \/ HandleToggleFavorite
  \/ ClearFavorites
  \/ RemoveNotification
  \/ ClearNotifications

SpecFavorites == InitFavorites /\ [][NextFavorites]_vars

(***************************************************************************)
(* Limit predicates of the quantity controls.                              *)
(***************************************************************************)
\* the predicate without the total limit
selectCanIncrementItemPerItemOnly(its, totalCount, pizzaId) ==
  getItemQuantity(its, pizzaId) < MAX_QUANTITY_PER_ITEM

\* selectCanIncrementItem(pizzaId) on (selectCartItems, selectCartItemsCount)
selectCanIncrementItem(its, totalCount, pizzaId) ==
  LET itemQuantity == getItemQuantity(its, pizzaId)
      canIncrementPerItem == itemQuantity < MAX_QUANTITY_PER_ITEM
      canIncrementTotal == totalCount < MAX_TOTAL_ITEMS
  IN canIncrementPerItem /\ canIncrementTotal

\* items.reduce((total, item) => total + item.quantity, 0)
selectCartItemsCount(its) == getTotalQuantity(its)

\* selectIsItemAtLimit(pizzaId): (item?.quantity || 0) >= MAX_QUANTITY_PER_ITEM
selectIsItemAtLimit(its, pizzaId) ==
  getItemQuantity(its, pizzaId) >= MAX_QUANTITY_PER_ITEM

(***************************************************************************)
(* Component handlers.  PizzaCard and PizzaDetails carry the same          *)
(* handleAddToCart: canAddInfo is selectCanAddToCart(pizza.id, quantity)   *)
(* of the current render, quantity the component's local quantity state.   *)
(* One handler is run, observed, on a stored cart of the reducer           *)
(* specification.                                                          *)
(***************************************************************************)
\* local quantities of the quantity selector (starts at 1, at most 25)
HandlerQuantities == {1, 2, 5, 25}

\* disabled={isItemAtLimit || (isCartAtLimit && cartItemQuantity === 0)}
AddButtonDisabled(its, pizzaId) ==
  \/ getItemQuantity(its, pizzaId) >= MAX_QUANTITY_PER_ITEM
  \/ /\ getTotalQuantity(its) >= MAX_TOTAL_ITEMS
     /\ getItemQuantity(its, pizzaId) = 0

\* handleAddToCart: the cart lines after the handler and the notification
\* it dispatches (named by its message)
handleAddToCart(its, pizzaId, quantity) ==
  LET canAddInfo == selectCanAddToCart(its, pizzaId, quantity)
      actualQuantityToAdd == Min2(quantity, canAddInfo.maxAddable)
  IN IF ~canAddInfo.canAdd
     THEN [items |-> its,
           notification |-> IF canAddInfo.limitType = "per_item"
                            THEN "MAX_PER_ITEM" ELSE "MAX_TOTAL"]
     ELSE [items |-> addToCart(its, pizzaId, actualQuantityToAdd),
           notification |-> IF actualQuantityToAdd < quantity
                            THEN "PARTIAL_ADD" ELSE "success"]

\* a click on an enabled Add to Cart button
HandleAddToCart ==
  \E pizzaId \in PizzaIds, quantity \in HandlerQuantities :
    /\ ~AddButtonDisabled(items, pizzaId)
    /\ NotificationRoom
    /\ LET after == handleAddToCart(items, pizzaId, quantity)
       IN /\ items' = after.items
          /\ notifications' =
               addNotification(notifications, after.notification)
    /\ Dispatched("handleAddToCart", pizzaId, quantity)
    /\ UNCHANGED <<isOpen, pizzas, derived, observe, totals, answer, orders,
                   currentOrderId, isProcessing, timers, callback, nextId,
                   favorites>>

\* order.items.forEach((item) => dispatch(addToCart({pizzaId: item.pizza.id,
\* quantity: item.quantity})))
RECURSIVE handleReorder(_, _)
handleReorder(its, orderItems) ==
  IF orderItems = <<>> THEN its
  ELSE LET item == Head(orderItems)
       IN handleReorder(addToCart(its, item.pizza.id, item.quantity),
                        Tail(orderItems))

\* a click on Reorder of an order of the log; the handler ends with a
\* success notification
HandleReorder ==
  \E n \in DOMAIN orders :
    /\ NotificationRoom
    /\ items' = handleReorder(items, orders[n].items)
    /\ notifications' = addNotification(notifications, "success")
    /\ DispatchedOrder("handleReorder", orders[n].id)
    /\ UNCHANGED <<isOpen, pizzas, derived, observe, totals, answer, orders,
                   currentOrderId, isProcessing, timers, callback, nextId,
                   favorites>>

\* handleQuickAdd of the home page: dispatch(addToCart({pizzaId,
\* quantity: 1})), then a success notification
HandleQuickAdd ==
  \E pizzaId \in PizzaIds :
    /\ NotificationRoom
    /\ items' = addToCart(items, pizzaId, 1)
    /\ notifications' = addNotification(notifications, "success")
    /\ Dispatched("handleQuickAdd", pizzaId, 1)
    /\ UNCHANGED <<isOpen, pizzas, derived, observe, totals, answer, orders,
                   currentOrderId, isProcessing, timers, callback, nextId,
                   favorites>>

\* handleIncrement of the quantity controls (Cart page, OrderSummary,
\* CartItem): the cart lines after the handler and the notification it
\* dispatches, "none" if it dispatches none
handleIncrement(its, pizzaId) ==
  LET canIncrement ==
        selectCanIncrementItem(its, selectCartItemsCount(its), pizzaId)
      isItemAtLimit == selectIsItemAtLimit(its, pizzaId)
  IN IF ~canIncrement
     THEN [items |-> its,
           notification |-> IF isItemAtLimit
                            THEN "MAX_PER_ITEM" ELSE "MAX_TOTAL"]
     ELSE [items |-> incrementQuantity(its, pizzaId),
           notification |-> "none"]

\* disabled={!canIncrement} of the increase button
IncrementButtonDisabled(its, pizzaId) ==
  ~selectCanIncrementItem(its, selectCartItemsCount(its), pizzaId)

\* a click on an enabled increase button of a line of the cart
HandleIncrement ==
  \E pizzaId \in PizzaIds :
    /\ Find(items, pizzaId) # 0
    /\ ~IncrementButtonDisabled(items, pizzaId)
    /\ LET after == handleIncrement(items, pizzaId)
       IN /\ after.notification # "none" => NotificationRoom
          /\ items' = after.items
          /\ notifications' =
               IF after.notification # "none"
               THEN addNotification(notifications, after.notification)
               ELSE notifications
    /\ Dispatched("handleIncrement", pizzaId, 0)
    /\ UNCHANGED <<isOpen, pizzas, derived, observe, totals, answer, orders,
                   currentOrderId, isProcessing, timers, callback, nextId,
                   favorites>>

\* a stored cart of the reducer specification and a log of earlier orders
InitHandlers ==
  /\ items \in StoredCarts
  /\ isOpen = FALSE
  /\ pizzas = InitialPizzas
  /\ derived = <<>>
  /\ observe = TRUE
  /\ last = NoAction
  /\ prev = items
  /\ totals = NoTotals
  /\ answer = NoAnswer
  /\ orders \in StoredLogs
  /\ currentOrderId = NoOrder
  /\ isProcessing = FALSE
  /\ timers = <<>>
  /\ callback = Idle
  /\ nextId = Len(orders) + 1
  /\ notifications = <<>>
  /\ favorites = <<>>

NextHandlers ==
  \/ last = NoAction /\ HandleAddToCart
  \/ last = NoAction /\ HandleQuickAdd
  \/ last = NoAction /\ HandleIncrement
  \/ last = NoAction /\ HandleClearCart
  \/ last = NoAction /\ HandleReorder
  \/ last = NoAction /\ HandleDeleteOrder
  \/ last = NoAction /\ HandleToggleFavorite

\* one handler, observed
SpecHandlers == InitHandlers /\ [][NextHandlers]_vars

(***************************************************************************)
(* Predicate and reducer side by side: a limit predicate is read on a      *)
(* stored cart and the request it was asked about is dispatched next.      *)
(***************************************************************************)
\* a read of selectCanIncrementItem(pizzaId)
SelectCanIncrementItem ==
  \E pizzaId \in PizzaIds :
    /\ answer' = [canIncrement |->
                    selectCanIncrementItem(items, selectCartItemsCount(items),
                                           pizzaId)]
    /\ last' = [op |-> "selectCanIncrementItem",
                pizzaId |-> pizzaId, quantity |-> 0]
    /\ UNCHANGED <<items, isOpen, pizzas, derived, observe, prev, totals,
                   orderVars, favorites>>

\* dispatch(incrementQuantity(pizzaId)) for the pizza just asked about
IncrementQuantityAsked ==
  /\ last.op = "selectCanIncrementItem"
  /\ items' = incrementQuantity(items, last.pizzaId)
  /\ Dispatched("incrementQuantity", last.pizzaId, 0)
  /\ UNCHANGED <<isOpen, pizzas, derived, observe, totals, answer, orderVars,
                 favorites>>

\* dispatch(addToCart({pizzaId, quantity})) for the request just asked about
AddToCartAsked ==
  /\ last.op = "selectCanAddToCart"
  /\ items' = addToCart(items, last.pizzaId, last.quantity)
  /\ Dispatched("addToCart", last.pizzaId, last.quantity)
  /\ UNCHANGED <<isOpen, pizzas, derived, observe, totals, answer, orderVars,
                 favorites>>

NextAgree ==
  \/ last = NoAction /\ SelectCanAddToCart
  \/ last = NoAction /\ SelectCanIncrementItem
  \/ AddToCartAsked
  \/ IncrementQuantityAsked

SpecAgree == InitReducers /\ [][NextAgree]_vars

(***************************************************************************)
(* Properties.  Quantity and Total read a cart independently of the        *)
(* reducers' helpers.                                                      *)
(***************************************************************************)
HasLine(its, pizzaId) == \E i \in DOMAIN its : its[i].pizzaId = pizzaId

Quantity(its, pizzaId) ==
  IF HasLine(its, pizzaId)
  THEN its[CHOOSE i \in DOMAIN its : its[i].pizzaId = pizzaId].quantity
  ELSE 0

RECURSIVE SumUpTo(_, _)
SumUpTo(its, n) == IF n = 0 THEN 0 ELSE its[n].quantity + SumUpTo(its, n - 1)

Total(its) == SumUpTo(its, Len(its))

Max2(a, b) == IF a >= b THEN a ELSE b

\* C1: after any sequence of cart actions from the empty cart no cart line
\* has a quantity greater than MAX_QUANTITY_PER_ITEM (25).
C1_PerItemCap ==
  \A i \in DOMAIN items : items[i].quantity <= 25

\* a line stands at the per-item cap while the cart still has room
C1_Witness ==
  /\ \E i \in DOMAIN items : items[i].quantity = 25
  /\ Total(items) < 50

\* C2: after any sequence of cart actions from the empty cart the sum of
\* the quantities of all cart lines never exceeds MAX_TOTAL_ITEMS (50).
C2_TotalCap == Total(items) <= 50

\* the cart is full with three lines, none of them at the per-item cap
C2_Witness ==
  /\ Total(items) = 50
  /\ Len(items) = 3
  /\ \A i \in DOMAIN items : items[i].quantity < 25

\* C3: every line present in the cart has quantity >= 1; no action leaves
\* a line with a zero or negative quantity.
C3_QuantityPositive ==
  \A i \in DOMAIN items : items[i].quantity >= 1

\* a cart with a line at the smallest quantity beside a line at the cap
C3_Witness ==
  /\ \E i \in DOMAIN items : items[i].quantity = 1
  /\ \E i \in DOMAIN items : items[i].quantity = 25

\* C4: addToCart(pizzaId, requestedQty) changes the quantity of pizzaId from
\* currentQty to currentQty + max(0, min(requestedQty, 25 - currentQty,
\* 50 - currentTotal)); when that amount is 0 the cart lines are unchanged.
C4_AddToCartAmount ==
  last.op = "addToCart" =>
    LET pizzaId == last.pizzaId
        currentQty == Quantity(prev, pizzaId)
        added == Max2(0, Min3(last.quantity, 25 - currentQty, 50 - Total(prev)))
    IN /\ Quantity(items, pizzaId) = currentQty + added
       /\ added = 0 => items = prev

\* an addToCart of 4 on a line below the per-item cap added fewer than 4:
\* the total cap cut it
C4_Witness ==
  /\ last.op = "addToCart"
  /\ last.quantity = 4
  /\ Quantity(prev, last.pizzaId) <= 5
  /\ Quantity(items, last.pizzaId) - Quantity(prev, last.pizzaId) \in 1..3

\* C5: updateQuantity(pizzaId, newQty) on an existing line: newQty <= 0
\* removes the line; 0 < newQty <= currentQty sets it to min(newQty, 25);
\* newQty > currentQty sets it to
\* min(currentQty + min(newQty - currentQty, 50 - currentTotal), 25).
C5_UpdateQuantityResult ==
  (last.op = "updateQuantity" /\ HasLine(prev, last.pizzaId)) =>
    LET pizzaId == last.pizzaId
        newQty == last.quantity
        currentQty == Quantity(prev, pizzaId)
        currentTotal == Total(prev)
    IN IF newQty <= 0 THEN ~HasLine(items, pizzaId)
       ELSE /\ HasLine(items, pizzaId)
            /\ Quantity(items, pizzaId) =
                 IF newQty <= currentQty THEN Min2(newQty, 25)
                 ELSE Min2(currentQty
                             + Min2(newQty - currentQty, 50 - currentTotal),
                           25)

\* an updateQuantity from 1 to 4 ended at 2: the increase was cut by the
\* total cap
C5_Witness ==
  /\ last.op = "updateQuantity"
  /\ last.quantity = 4
  /\ Quantity(prev, last.pizzaId) = 1
  /\ Quantity(items, last.pizzaId) = 2

\* C6: incrementQuantity(pizzaId) raises an existing line by exactly 1 when
\* the line is below 25 and the cart total below 50; in every other case
\* (line at 25, total at 50, no line) the cart is unchanged.
C6_IncrementQuantityResult ==
  last.op = "incrementQuantity" =>
    LET pizzaId == last.pizzaId
    IN IF /\ HasLine(prev, pizzaId)
          /\ Quantity(prev, pizzaId) < 25
          /\ Total(prev) < 50
       THEN /\ Quantity(items, pizzaId) = Quantity(prev, pizzaId) + 1
            /\ Total(items) = Total(prev) + 1
       ELSE items = prev

\* an incrementQuantity ran on a line below 25 in a full cart and changed
\* nothing
C6_Witness ==
  /\ last.op = "incrementQuantity"
  /\ Total(prev) = 50
  /\ Quantity(prev, last.pizzaId) \in 1..24
  /\ items = prev

\* C7: decrementQuantity(pizzaId) lowers an existing line by exactly 1 when
\* it is greater than 1, removes the line when it is 1 or lower, and leaves
\* the cart unchanged when there is no line for pizzaId.
C7_DecrementQuantityResult ==
  last.op = "decrementQuantity" =>
    LET pizzaId == last.pizzaId
        currentQty == Quantity(prev, pizzaId)
    IN IF ~HasLine(prev, pizzaId) THEN items = prev
       ELSE IF currentQty > 1
            THEN /\ HasLine(items, pizzaId)
                 /\ Quantity(items, pizzaId) = currentQty - 1
                 /\ Len(items) = Len(prev)
            ELSE /\ ~HasLine(items, pizzaId)
                 /\ Len(items) = Len(prev) - 1

\* a decrementQuantity removed a line of quantity 1 and left the others
C7_Witness ==
  /\ last.op = "decrementQuantity"
  /\ Quantity(prev, last.pizzaId) = 1
  /\ ~HasLine(items, last.pizzaId)
  /\ Len(items) = 2

\* C8: removeFromCart is idempotent: in the cart a removeFromCart(pizzaId)
\* has produced, a second removeFromCart(pizzaId) changes nothing, so two
\* applications give the cart of one.
C8_RemoveIdempotent ==
  last.op = "removeFromCart" =>
    /\ ~HasLine(items, last.pizzaId)
    /\ removeFromCart(items, last.pizzaId) = items

\* a removeFromCart removed a line and other lines remain for a second
\* application to leave alone
C8_Witness ==
  /\ last.op = "removeFromCart"
  /\ HasLine(prev, last.pizzaId)
  /\ Len(items) = 2

\* C9: for every derived order line the discount is non-zero iff quantity
\* >= DISCOUNT_THRESHOLD (3); when non-zero it is exactly 10% of the
\* pre-discount price (unit price x quantity); below the threshold it is 0.
C9_DiscountIffThreshold ==
  \A i \in DOMAIN derived :
    LET line == derived[i]
    IN /\ line.originalPrice = line.pizza.price * line.quantity
       /\ (line.discountAmount # 0) <=> (line.quantity >= 3)
       /\ line.quantity >= 3 => 10 * line.discountAmount = line.originalPrice
       /\ line.quantity < 3 => line.discountAmount = 0

\* the derived cart holds a line of quantity 3 with a discount and a line
\* of quantity 2 without one
C9_Witness ==
  /\ \E i \in DOMAIN derived :
       derived[i].quantity = 3 /\ derived[i].discountAmount > 0
  /\ \E i \in DOMAIN derived :
       derived[i].quantity = 2 /\ derived[i].discountAmount = 0

\* C10 as stated: for quantity q and unit price p the derived line has
\* discountAmount = round2(p*q*0.10) when q >= 3 and 0 otherwise, and
\* finalPrice = p*q - discountAmount.
C10_DiscountRounded ==
  \A i \in DOMAIN derived :
    LET line == derived[i]
        p == line.pizza.price
        q == line.quantity
    IN /\ line.discountAmount =
            IF q >= 3 THEN RoundToCents((p * q) \div 10) ELSE 0
       /\ line.finalPrice = p * q - line.discountAmount

\* C10 amended: the derived line has discountAmount = p*q*0.10, not
\* rounded, when q >= 3 and 0 otherwise, and finalPrice = p*q -
\* discountAmount.
C10_DiscountUnrounded ==
  \A i \in DOMAIN derived :
    LET line == derived[i]
        p == line.pizza.price
        q == line.quantity
    IN /\ 10 * line.discountAmount = IF q >= 3 THEN p * q ELSE 0
       /\ line.finalPrice + line.discountAmount = p * q

\* a derived line whose discount is not a whole number of cents:
\* 3 x $12.99 gives a discount of $3.897
C10_Witness ==
  \E i \in DOMAIN derived :
    /\ derived[i].pizza.price = 12990
    /\ derived[i].quantity = 3
    /\ derived[i].discountAmount = 3897
    /\ derived[i].finalPrice = 35073

\* C11: the totals selectCartTotals returns satisfy total = subtotal -
\* totalDiscount, with subtotal the sum of the derived lines' originalPrice
\* and totalDiscount the sum of their discountAmount.
C11_TotalsAddUp ==
  last.op = "selectCartTotals" =>
    /\ totals.total = totals.subtotal - totals.totalDiscount
    /\ totals.subtotal = SumOriginalPrice(derived)
    /\ totals.totalDiscount = SumDiscountAmount(derived)

\* the pizza of a cart line is in the catalog
InCatalog(ps, pizzaId) == \E j \in DOMAIN ps : ps[j].id = pizzaId

\* position of the cart line of pizzaId (cart lines have distinct pizzas)
LineOf(its, pizzaId) == CHOOSE i \in DOMAIN its : its[i].pizzaId = pizzaId

\* C12: selectCartWithDetails returns exactly one derived line for each cart
\* line whose pizza exists in the catalog, in the cart's insertion order and
\* with the cart line's quantity; lines whose pizza is missing are dropped
\* and the cart itself is not changed.
C12_DerivedLines ==
  last.op = "selectCartWithDetails" =>
    /\ items = prev
    /\ Len(derived) =
         Cardinality({i \in DOMAIN items : InCatalog(pizzas, items[i].pizzaId)})
    /\ \A k \in DOMAIN derived :
         /\ InCatalog(pizzas, derived[k].pizza.id)
         /\ HasLine(items, derived[k].pizza.id)
         /\ derived[k].quantity = Quantity(items, derived[k].pizza.id)
    /\ \A k, l \in DOMAIN derived :
         k < l => LineOf(items, derived[k].pizza.id)
                    < LineOf(items, derived[l].pizza.id)

\* a cart of two lines whose first pizza is missing from the catalog: only
\* the second line is derived
C12_Witness ==
  /\ last.op = "selectCartWithDetails"
  /\ Len(items) = 2
  /\ ~InCatalog(pizzas, items[1].pizzaId)
  /\ Len(derived) = 1
  /\ derived[1].pizza.id = items[2].pizzaId

\* the timer callback has made all its dispatches and has not yet returned
Completed ==
  /\ callback.pc > 0
  /\ callback.pc = Len(TimerCallback(callback.closure.handler)) + 1

\* C13: confirming an empty cart is rejected and mutates nothing: the order
\* log, the cart, currentOrderId and the processing flag are unchanged and
\* no delayed confirmation is scheduled (the only effect is the error
\* notification).
C13_EmptyCartRejected ==
  [][(ConfirmOrder /\ items = <<>>) =>
       /\ notifications' = Append(notifications, "error")
       /\ UNCHANGED <<orders, items, currentOrderId, isProcessing, timers,
                      callback, nextId>>]_vars

\* an empty cart was confirmed after an earlier order completed: the error
\* notification is shown, the log still holds the one order and nothing is
\* pending
C13_Witness ==
  /\ notifications = <<"error">>
  /\ items = <<>>
  /\ pizzas = InitialPizzas
  /\ Len(orders) = 1
  /\ timers = <<>>
  /\ callback = Idle
  /\ ~isProcessing

\* C14: when a non-empty cart is confirmed, then once the confirmation
\* completes the cart has no lines and the order log has grown by exactly
\* one entry, whose items and subtotal, totalDiscount and total are the
\* derived lines and totals read at the confirm action.
C14_CompletionAppendsSnapshot ==
  Completed =>
    /\ items = <<>>
    /\ Len(orders) = callback.startLen + 1
    /\ LET order == orders[Len(orders)]
           closure == callback.closure
       IN /\ order.items = closure.cartItems
          /\ order.subtotal = closure.totals.subtotal
          /\ order.totalDiscount = closure.totals.totalDiscount
          /\ order.total = closure.totals.total
          /\ order.subtotal = SumOriginalPrice(closure.cartItems)

\* a confirmation of two lines has completed after the user changed the
\* cart in between: the order carries the totals of the click
C14_Witness ==
  /\ Completed
  /\ Len(callback.closure.cartItems) = 2
  /\ callback.startItems # callback.closure.clicked
  /\ orders[Len(orders)].total = callback.closure.totals.total
  /\ orders[Len(orders)].total > 0

\* C15: the delay between the confirm action and its completion does not
\* matter; in particular every cart line that the completion wipes and
\* that was not in the cart at the confirm action appears in the order.
C15_NoLateLineWiped ==
  Dispatching("clearCart") =>
    \A i \in DOMAIN items :
      \/ HasLine(callback.closure.clicked, items[i].pizzaId)
      \/ \E j \in DOMAIN callback.order.items :
           callback.order.items[j].pizza.id = items[i].pizzaId

\* C19: the confirm action is rejected exactly when the cart store has no
\* lines; with at least one stored line it is accepted.
C19_RejectedIffNoLines ==
  [][ConfirmOrder =>
       ((notifications' # notifications) <=> (items = <<>>))]_vars

\* C20: the completion appends the order with status 'confirmed' at the
\* end of the log and sets currentOrderId, then clears the cart, then
\* resets isProcessing, with nothing in between; the cart is never cleared
\* by a confirmation whose order is not yet in the log.
C20_AppendThenClear ==
  callback.pc >= 1 =>
    LET order == callback.order
        appended == /\ Len(orders) = callback.startLen + 1
                    /\ orders[Len(orders)] = order
                    /\ currentOrderId = order.id
    IN /\ order.status = "confirmed"
       /\ callback.pc = 1 =>
            (Len(orders) = callback.startLen /\ items = callback.startItems)
       /\ callback.pc >= 2 => appended
       /\ callback.pc = 2 => items = callback.startItems
       /\ callback.pc >= 3 => items = <<>>
       /\ Completed => ~isProcessing
       /\ items # callback.startItems => appended

\* the callback has appended its order and cleared a non-empty cart and
\* is about to reset the processing flag
C20_Witness ==
  /\ Dispatching("setProcessing")
  /\ callback.startItems # <<>>
  /\ items = <<>>
  /\ isProcessing
  /\ orders = <<callback.order>>

\* C16: an order in the log keeps its id, items, subtotal, totalDiscount,
\* total and createdAt through every action on the cart, the catalog and
\* the order log; its status changes only by updateOrderStatus on its id
\* and it leaves the log only by removeOrder on its id.
C16_OrderImmutable ==
  [][\A i \in DOMAIN orders :
       LET order == orders[i]
           kept == {j \in DOMAIN orders' : orders'[j].id = order.id}
       IN /\ kept = {} =>
               (last' # last
                  /\ last'.op \in {"removeOrder", "handleDeleteOrder"}
                  /\ last'.orderId = order.id)
          /\ \A j \in kept :
               /\ [orders'[j] EXCEPT !.status = order.status] = order
               /\ orders'[j].status # order.status =>
                    (last' # last
                       /\ last'.op = "updateOrderStatus"
                       /\ last'.orderId = order.id)]_vars

\* the price of a pizza was updated in the catalog and an order in the log
\* still holds that pizza at its old price
C16_Witness ==
  /\ last.op = "updatePizza"
  /\ \E i \in DOMAIN orders : \E k \in DOMAIN orders[i].items :
       LET pizza == orders[i].items[k].pizza
       IN /\ pizza.id = last.pizzaId
          /\ FindPizza(pizzas, pizza.id) # 0
          /\ pizzas[FindPizza(pizzas, pizza.id)].price # pizza.price

\* C17: for a requested quantity q >= 1, selectCanAddToCart(pizzaId, q)
\* reports limitType 'none' exactly when q <= min(25 - currentQty, 50 -
\* currentTotal); otherwise 'per_item' exactly when 25 - currentQty <= 50 -
\* currentTotal, and 'total' in the remaining case.
C17_LimitType ==
  last.op = "selectCanAddToCart" =>
    LET q == last.quantity
        perItem == 25 - Quantity(items, last.pizzaId)
        total == 50 - Total(items)
    IN /\ (answer.limitType = "none") <=> (q <= perItem /\ q <= total)
       /\ (answer.limitType = "per_item") <=>
            (~(q <= perItem /\ q <= total) /\ perItem <= total)
       /\ (answer.limitType = "total") <=>
            (~(q <= perItem /\ q <= total) /\ perItem > total)

\* a tie with room left: one line of 24 beside 25 others, a request for 2
\* is answered 'per_item'
C17_Witness ==
  /\ last.op = "selectCanAddToCart"
  /\ last.quantity = 2
  /\ Quantity(items, last.pizzaId) = 24
  /\ Total(items) = 49
  /\ answer.limitType = "per_item"
  /\ answer.maxAddable = 1

\* the pizzaIds marked as favorites
FavoriteSet(favs) == {favs[i].pizzaId : i \in DOMAIN favs}

\* C18: after any sequence of addToFavorites, removeFromFavorites,
\* toggleFavorite and clearFavorites from the empty list no pizzaId appears
\* in more than one favorite entry, and toggleFavorite(id) flips the
\* membership of id and of no other id.
C18_FavoritesSet ==
  [][/\ \A i, j \in DOMAIN favorites' :
          favorites'[i].pizzaId = favorites'[j].pizzaId => i = j
     /\ last'.op \in {"toggleFavorite", "handleToggleFavorite"} =>
          \A id \in PizzaIds :
            (id \in FavoriteSet(favorites')) <=>
              IF id = last'.pizzaId
              THEN id \notin FavoriteSet(favorites)
              ELSE id \in FavoriteSet(favorites)]_vars

\* a toggle has removed the middle one of three favorites
C18_Witness ==
  /\ last.op = "toggleFavorite"
  /\ Len(favorites) = 2
  /\ last.pizzaId \notin FavoriteSet(favorites)
  /\ favorites[2].addedAt = 3

\* C21: the add-to-cart handlers of PizzaCard and PizzaDetails clamp an
\* over-limit request: when the user asks for q units and only m units with
\* 0 < m < q are still permitted, exactly m units are added to the cart.
C21_HandlerClamps ==
  last.op = "handleAddToCart" =>
    LET q == last.quantity
        m == Min2(MAX_QUANTITY_PER_ITEM - Quantity(prev, last.pizzaId),
                  MAX_TOTAL_ITEMS - Total(prev))
    IN (0 < m /\ m < q) =>
         /\ Quantity(items, last.pizzaId) = Quantity(prev, last.pizzaId) + m
         /\ Total(items) = Total(prev) + m

\* the order of the log that the last handler named
OrderNamed(orderId) == orders[CHOOSE n \in DOMAIN orders : orders[n].id = orderId]

\* C22: after handleReorder(order), for every item of the order the cart
\* quantity of that pizza has increased by the item's ordered quantity.
C22_ReorderAddsAll ==
  last.op = "handleReorder" =>
    LET order == OrderNamed(last.orderId)
    IN \A i \in DOMAIN order.items :
         Quantity(items, order.items[i].pizza.id) =
           Quantity(prev, order.items[i].pizza.id) + order.items[i].quantity

\* C23 as stated: for every pizzaId, selectCanIncrementItem(pizzaId) is true
\* exactly when dispatching incrementQuantity(pizzaId) raises the cart total
\* by 1.
C23_IncrementAgreesAll ==
  last.op = "incrementQuantity" =>
    (answer.canIncrement <=> Total(items) = Total(prev) + 1)

\* C23: for every pizzaId that has a line in the cart,
\* selectCanIncrementItem(pizzaId) is true exactly when dispatching
\* incrementQuantity(pizzaId) raises the cart total by 1.
C23_IncrementAgrees ==
  (last.op = "incrementQuantity" /\ HasLine(prev, last.pizzaId)) =>
    (answer.canIncrement <=> Total(items) = Total(prev) + 1)

\* the predicate was false for a line below 25 in a full cart, and the
\* increment left the cart as it was
C23_Witness ==
  /\ last.op = "incrementQuantity"
  /\ Quantity(prev, last.pizzaId) = 24
  /\ Total(prev) = MAX_TOTAL_ITEMS
  /\ ~answer.canIncrement
  /\ items = prev

\* C24: dispatching addToCart(pizzaId, q) with q >= 1 adds exactly
\* min(q, maxAddable) units, where maxAddable is the value
\* selectCanAddToCart(pizzaId, q) reported in the pre-state, and canAdd was
\* true exactly when the full q is added.
C24_AddAgrees ==
  (last.op = "addToCart" /\ last.quantity >= 1) =>
    LET added == Total(items) - Total(prev)
    IN /\ added = Min2(last.quantity, answer.maxAddable)
       /\ Quantity(items, last.pizzaId) = Quantity(prev, last.pizzaId) + added
       /\ answer.canAdd <=> added = last.quantity

\* 21 units were asked for a pizza whose line holds 1 in a cart of 49: the
\* predicate reported 1 addable and a refusal, and 1 unit was added
C24_Witness ==
  /\ last.op = "addToCart"
  /\ last.quantity = 21
  /\ Quantity(prev, last.pizzaId) = 1
  /\ Total(prev) = 49
  /\ answer.maxAddable = 1
  /\ ~answer.canAdd
  /\ Total(items) = MAX_TOTAL_ITEMS

\* the sum of the quantities of derived order lines
RECURSIVE SumLineQuantity(_)
SumLineQuantity(lines) ==
  IF lines = <<>> THEN 0 ELSE Head(lines).quantity + SumLineQuantity(Tail(lines))

\* C25: in every reachable state (also after removePizza) the item count
\* used for limit enforcement and badges, selectCartItemsCount, equals the
\* sum of the quantities of the derived lines of selectCartWithDetails.
C25_CountMatchesDerived ==
  selectCartItemsCount(items) =
    SumLineQuantity(selectCartWithDetails(items, pizzas))

\* the running callback has not yet dispatched setProcessing(false)
CallbackPending ==
  /\ callback.pc > 0
  /\ \E i \in callback.pc..Len(TimerCallback(callback.closure.handler)) :
       TimerCallback(callback.closure.handler)[i] = "setProcessing"

\* C26: if confirm is triggered a second time while an earlier confirmation
\* is still pending, the two completions together append exactly one order:
\* the completion of a confirmation that was clicked while another was
\* pending leaves the log as long as it found it.
C26_OrderedOnce ==
  (callback.pc > 0 /\ callback.closure.pending > 0) =>
    Len(orders) = callback.startLen

\* confirmations started and not yet completed: the timers scheduled and
\* the callback that has not yet dispatched setProcessing(false)
PendingConfirmations == Len(timers) + (IF CallbackPending THEN 1 ELSE 0)

\* the k-th confirmation has been started
Started(k) == nextId + Len(timers) > k

\* the k-th confirmation has completed
Done(k) == nextId > k /\ ~(CallbackPending /\ callback.order.id = k)

\* C27: in every reachable state orders.isProcessing is true exactly when
\* at least one confirmation has been started and has not yet completed, and
\* every started confirmation eventually completes with isProcessing false.
C27_ProcessingTracksPending ==
  /\ [](isProcessing <=> PendingConfirmations > 0)
  /\ \A k \in 1..MaxConfirms :
       [](Started(k) => <>(Done(k) /\ ~isProcessing))

\* the completion part of C27 alone, which holds under SpecPending
C27_CompletionOnly ==
  \A k \in 1..MaxConfirms : [](Started(k) => <>(Done(k) /\ ~isProcessing))

\* C28: in every reachable state orders.currentOrderId is either null or
\* the id of an order that is present in the order log, after any sequence
\* of addOrder, removeOrder, updateOrderStatus and clearCurrentOrder.
C28_CurrentOrderInLog ==
  currentOrderId # NoOrder => \E n \in DOMAIN orders : orders[n].id = currentOrderId

\* the position of the line of pizzaId in a cart that has one
Pos(its, pizzaId) == CHOOSE i \in DOMAIN its : its[i].pizzaId = pizzaId

\* C29: starting from the empty cart, after any sequence of cart actions no
\* two cart lines share the same pizzaId, the lines that stay in the cart
\* keep their order (insertion order), and a newly created line is appended
\* at the end.
C29_LinesDistinctInOrder ==
  [][/\ \A i, j \in DOMAIN items' :
          items'[i].pizzaId = items'[j].pizzaId => i = j
     /\ \A a, b \in PizzaIds :
          (HasLine(items, a) /\ HasLine(items, b)
             /\ HasLine(items', a) /\ HasLine(items', b)) =>
            (Pos(items, a) < Pos(items, b) <=> Pos(items', a) < Pos(items', b))
     /\ \A a \in PizzaIds :
          (~HasLine(items, a) /\ HasLine(items', a)) =>
            Pos(items', a) = Len(items')]_vars

\* three lines in an order that only insertion order explains: p3 was added
\* first, p1 after it, p2 last
C29_Witness ==
  /\ Len(items) = 3
  /\ items[1].pizzaId = "p3"
  /\ items[2].pizzaId = "p1"
  /\ items[3].pizzaId = "p2"

\* the cart actions that target one pizza
TargetedOps == {"addToCart", "updateQuantity", "incrementQuantity",
                "decrementQuantity", "removeFromCart"}

\* C30: a cart action that targets pizza X never changes the quantity or
\* presence of the line of any other pizza Y, no line-changing action
\* (including clearCart) changes the cart's isOpen flag, and toggleCart and
\* setCartOpen never change the cart lines.
C30_FrameEffects ==
  [][/\ last'.op \in TargetedOps =>
          \A y \in PizzaIds \ {last'.pizzaId} :
            /\ HasLine(items', y) <=> HasLine(items, y)
            /\ Quantity(items', y) = Quantity(items, y)
     /\ last'.op \in TargetedOps \cup {"clearCart"} => isOpen' = isOpen
     /\ last'.op \in {"toggleCart", "setCartOpen"} => items' = items]_vars

\* with the drawer open, a removeFromCart took one line out of three and
\* the two other lines are still there
C30_Witness ==
  /\ last.op = "removeFromCart"
  /\ isOpen
  /\ Len(prev) = 3
  /\ Len(items) = 2
  /\ \A y \in PizzaIds \ {last.pizzaId} : Quantity(items, y) = Quantity(prev, y)

====
